---- MODULE Spec2Model ----
(***************************************************************************)
(* The order book of src/core/market/order_book.rs: two ordered entry maps *)
(* (bids, asks), the matching algorithm match_orders, the four placement   *)
(* methods and cancel_order.                                               *)
(***************************************************************************)
EXTENDS Integers, Sequences, FiniteSets, TLC

(***************************************************************************)
(* Bounds of the model.                                                    *)
(***************************************************************************)
WordBits == 24
MaxPrice == 2
MaxCreator == 2
MaxHeight == 2
MaxSize == 2
MaxOrders == 2

Prices == 1..MaxPrice
Creators == 1..MaxCreator
Heights == 1..MaxHeight
Sizes == 0..MaxSize

(***************************************************************************)
(* u64::MAX, at the word width of the model.                               *)
(***************************************************************************)
U64_MAX == 2^WordBits - 1

Order(price, creator, height, size) ==
    [price |-> price, creator |-> creator, height |-> height, size |-> size]

(***************************************************************************)
(* OrderKey: the key is encoded field by field (price, creator, height),   *)
(* each at fixed width and big-endian, and the map iterates in the order   *)
(* of the encoded bytes: lexicographic on (price, creator, height).        *)
(***************************************************************************)
OrderKey(price, creator, height) ==
    [price |-> price, creator |-> creator, height |-> height]

\* Mutant of KeyLess: the creator field encoded ahead of the price.
KeyLess_CreatorFirst(a, b) ==
    \/ a.creator < b.creator
    \/ a.creator = b.creator /\ a.price < b.price
    \/ a.creator = b.creator /\ a.price = b.price /\ a.height < b.height

KeyLess(a, b) ==
    \/ a.price < b.price
    \/ a.price = b.price /\ a.creator < b.creator
    \/ a.price = b.price /\ a.creator = b.creator /\ a.height < b.height

(***************************************************************************)
(* impl Entry for Bid / Ask.  T is "Bid" or "Ask".                         *)
(***************************************************************************)
BidIntoEntry(o) ==
    <<OrderKey((U64_MAX - o.price) % 2^WordBits, o.creator, o.height), [size |-> o.size]>>

BidFromEntry(e) ==
    Order((U64_MAX - e[1].price) % 2^WordBits, e[1].creator, e[1].height, e[2].size)

AskIntoEntry(o) ==
    <<OrderKey(o.price, o.creator, o.height), [size |-> o.size]>>

AskFromEntry(e) ==
    Order(e[1].price, e[1].creator, e[1].height, e[2].size)

IntoEntry(T, o) == IF T = "Bid" THEN BidIntoEntry(o) ELSE AskIntoEntry(o)

FromEntry(T, e) == IF T = "Bid" THEN BidFromEntry(e) ELSE AskFromEntry(e)

(***************************************************************************)
(* The backing map: a function from the keys present to their values.      *)
(* insert overwrites the value under an existing key; delete removes the   *)
(* key when it is present and succeeds either way.                         *)
(***************************************************************************)
EmptyMap == << >>

MapInsert(map, key, val) ==
    [k \in (DOMAIN map) \cup {key} |-> IF k = key THEN val ELSE map[k]]

MapDelete(map, key) ==
    [k \in (DOMAIN map) \ {key} |-> map[k]]

\* Mutant of EntryMapInsert: the size is added to that of the entry resting
\* under the key.
EntryMapInsert_Accumulate(T, map, entry) ==
    LET kv == IntoEntry(T, entry)
    IN MapInsert(map, kv[1],
                 IF kv[1] \in DOMAIN map
                 THEN [size |-> map[kv[1]].size + kv[2].size]
                 ELSE kv[2])

EntryMapInsert(T, map, entry) ==
    LET kv == IntoEntry(T, entry) IN MapInsert(map, kv[1], kv[2])

EntryMapDelete(T, map, entry) ==
    LET kv == IntoEntry(T, entry) IN MapDelete(map, kv[1])

\* The size of the entry that the insert of entry overwrites: None when no
\* entry rests under its key.
Resting(T, map, entry) ==
    LET kv == IntoEntry(T, entry)
    IN IF kv[1] \in DOMAIN map THEN <<map[kv[1]].size>> ELSE << >>

(***************************************************************************)
(* Iteration: the entries in ascending key order, each through from_entry. *)
(***************************************************************************)
RECURSIVE MapIter(_, _)
MapIter(map, keys) ==
    IF keys = {} THEN << >>
    ELSE LET k == CHOOSE x \in keys : \A y \in keys \ {x} : KeyLess(x, y)
         IN <<(<<k, map[k]>>)>> \o MapIter(map, keys \ {k})

\* Mutant of EntryMapIter: the entries are yielded from the last to the first.
EntryMapIter_Reversed(T, map) ==
    LET es == MapIter(map, DOMAIN map)
    IN [i \in 1..Len(es) |-> FromEntry(T, es[Len(es) + 1 - i])]

EntryMapIter(T, map) ==
    LET es == MapIter(map, DOMAIN map)
    IN [i \in 1..Len(es) |-> FromEntry(T, es[i])]

(***************************************************************************)
(* match_orders.  price is << >> for None and <<p>> for Some(p).           *)
(***************************************************************************)
None == << >>
Some(p) == <<p>>

EmptyScan == [total_fill_size |-> 0, fills |-> << >>,
              orders_to_delete |-> << >>, order_to_insert |-> None]

(***************************************************************************)
(* The limit test of the scan: a buy stops at the first resting order      *)
(* priced above its limit, a sell at the first one priced below it.        *)
(***************************************************************************)
\* Mutant of LimitReached: the limit price itself is out of reach.
LimitReached_Exclusive(side, price, next_order) ==
    \/ side = "Buy" /\ price # None /\ price[1] <= next_order.price
    \/ side = "Sell" /\ price # None /\ price[1] >= next_order.price

LimitReached(side, price, next_order) ==
    \/ side = "Buy" /\ price # None /\ price[1] < next_order.price
    \/ side = "Sell" /\ price # None /\ price[1] > next_order.price

\* Mutant of SameCreator: the creator's own orders are not skipped.
SameCreator_Never(next_order, creator) == FALSE

SameCreator(next_order, creator) == next_order.creator = creator

(***************************************************************************)
(* "Completely filling the ask, removing it from order book."              *)
(***************************************************************************)
FullFill(st, next_order) ==
    [st EXCEPT !.total_fill_size = (st.total_fill_size + next_order.size) % 2^WordBits,
               !.fills = Append(st.fills, next_order),
               !.orders_to_delete = Append(st.orders_to_delete, next_order)]

\* Mutant of PartialFill: the whole resting size is counted as filled.
PartialFill_WholeOrder(st, next_order, remaining_size) ==
    [st EXCEPT !.total_fill_size = (st.total_fill_size + next_order.size) % 2^WordBits,
               !.fills = Append(st.fills, next_order),
               !.order_to_insert =
                   Some([next_order EXCEPT !.size = next_order.size - remaining_size])]

\* Mutant of PartialFill: the reduced order is not written back.
PartialFill_NoReinsert(st, next_order, remaining_size) ==
    [st EXCEPT !.total_fill_size = (st.total_fill_size + remaining_size) % 2^WordBits,
               !.fills = Append(st.fills, [next_order EXCEPT !.size = remaining_size])]

(***************************************************************************)
(* "Partially filling the ask, updating it on the order book."             *)
(***************************************************************************)
PartialFill(st, next_order, remaining_size) ==
    [st EXCEPT !.total_fill_size = (st.total_fill_size + remaining_size) % 2^WordBits,
               !.fills = Append(st.fills, [next_order EXCEPT !.size = remaining_size]),
               !.order_to_insert =
                   Some([next_order EXCEPT !.size = next_order.size - remaining_size])]

RECURSIVE MatchScan(_, _, _, _, _, _, _)
MatchScan(ords, i, size, creator, side, price, st) ==
    IF i > Len(ords) THEN st
    ELSE
      LET next_order == ords[i]
          remaining_size == size - st.total_fill_size
      IN
      IF LimitReached(side, price, next_order) THEN st
      ELSE IF SameCreator(next_order, creator)
        THEN MatchScan(ords, i + 1, size, creator, side, price, st)
      ELSE
        LET st2 == IF remaining_size >= next_order.size
                   THEN FullFill(st, next_order)
                   ELSE PartialFill(st, next_order, remaining_size)
        IN IF size = st2.total_fill_size THEN st2
           ELSE MatchScan(ords, i + 1, size, creator, side, price, st2)

RECURSIVE DeleteAll(_, _, _)
DeleteAll(T, map, dels) ==
    IF dels = << >> THEN map
    ELSE DeleteAll(T, EntryMapDelete(T, map, Head(dels)), Tail(dels))

\* Mutant of match_orders: the orders filled in full are not deleted.
match_orders_KeepFilled(T, orders, size, creator, side, price) ==
    LET st == MatchScan(EntryMapIter(T, orders), 1, size, creator, side, price, EmptyScan)
        inserted == IF st.order_to_insert # None
                    THEN EntryMapInsert(T, orders, st.order_to_insert[1])
                    ELSE orders
    IN [orders |-> inserted,
        result |-> [total_fill_size |-> st.total_fill_size, fills |-> st.fills]]

match_orders(T, orders, size, creator, side, price) ==
    LET st == MatchScan(EntryMapIter(T, orders), 1, size, creator, side, price, EmptyScan)
        deleted == DeleteAll(T, orders, st.orders_to_delete)
        inserted == IF st.order_to_insert # None
                    THEN EntryMapInsert(T, deleted, st.order_to_insert[1])
                    ELSE deleted
    IN [orders |-> inserted,
        result |-> [total_fill_size |-> st.total_fill_size, fills |-> st.fills]]

(***************************************************************************)
(* The margin account of src/core/primitives/account.rs.                   *)
(*                                                                         *)
(* The fixed-point scales are powers of ten; the model keeps them as       *)
(* powers of ten with fewer digits (8 digits each in the source), and a    *)
(* u64 is a word of WordBits bits.  Wrap(x) is x as such a word.           *)
(***************************************************************************)
SatoshiDigits == 1
PrecisionDigits == 2

SATOSHIS_PER_BITCOIN == 10^SatoshiDigits

PRICE_PRECISION == 10^PrecisionDigits

LEVERAGE_PRECISION == 100

MAX_LEVERAGE == 100 * LEVERAGE_PRECISION

Wrap(x) == x % 2^WordBits

\* Whether x, the exact result of an operation on words, is not a word: the
\* operation panics in a build with overflow checks and wraps in one without.
Overflows(x) == x < 0 \/ x >= 2^WordBits

Other(side) == IF side = "Long" THEN "Short" ELSE "Long"

Account(balance) ==
    [nonce |-> 0, balance |-> balance, order_margin |-> 0, max_bid_margin |-> 0,
     max_ask_margin |-> 0, size |-> 0, side |-> "Long", entry_price |-> 0,
     position_margin |-> 0, desired_leverage |-> LEVERAGE_PRECISION]

\* Order::cost
cost(order) == Wrap(order.size * SATOSHIS_PER_BITCOIN) \div order.price

value(a) ==
    IF a.size = 0 THEN 0
    ELSE IF a.entry_price = 0 THEN 0
    ELSE Wrap(a.size * SATOSHIS_PER_BITCOIN) \div a.entry_price

\* value divides by entry_price.
value_panics(a) == a.size # 0 /\ a.entry_price = 0

divide_by_leverage(a, n) ==
    (Wrap(Wrap(n * PRICE_PRECISION) * LEVERAGE_PRECISION) \div a.desired_leverage)
        \div PRICE_PRECISION

\* Whether a product of divide_by_leverage(a, n) does not fit the word.
divide_by_leverage_overflows(n) ==
    \/ Overflows(n * PRICE_PRECISION)
    \/ Overflows(Wrap(n * PRICE_PRECISION) * LEVERAGE_PRECISION)

saturating_sub(x, y) == IF x > y THEN x - y ELSE 0

(***************************************************************************)
(* A computation on an account: the account as it stands (a), whether the  *)
(* call has bailed (err), whether an operation has overflowed or a         *)
(* debug_assert has failed (ovf: a panic in a debug build, nothing in a    *)
(* release build, where the arithmetic wraps), whether it has panicked in  *)
(* every build (pan: a division by zero), whether a debit exceeded the     *)
(* balance (neg), and the u64 a rebalancer returns (out).                  *)
(***************************************************************************)
Comp(a, err, ovf, pan, neg, out) ==
    [a |-> a, err |-> err, ovf |-> ovf, pan |-> pan, neg |-> neg, out |-> out]

\* The order margin the reserved notional calls for: both sides at the
\* account's leverage, the side that would reduce the position less the
\* position margin.
max_bid_margin(a) ==
    IF a.side = "Short"
    THEN saturating_sub(divide_by_leverage(a, a.max_bid_margin), a.position_margin)
    ELSE divide_by_leverage(a, a.max_bid_margin)

max_ask_margin(a) ==
    IF a.side = "Long"
    THEN saturating_sub(divide_by_leverage(a, a.max_ask_margin), a.position_margin)
    ELSE divide_by_leverage(a, a.max_ask_margin)

new_om_overflows(a) ==
    \/ divide_by_leverage_overflows(a.max_bid_margin)
    \/ divide_by_leverage_overflows(a.max_ask_margin)
    \/ Overflows(max_bid_margin(a) + max_ask_margin(a))

\* The order margin is brought to new_om: the increase is locked from the
\* balance, or the call bails; a decrease is returned as unlocked.
lock_order_margin(a, new_om, ovf) ==
    IF new_om > a.order_margin
    THEN IF a.balance < new_om - a.order_margin
         THEN Comp(a, TRUE, ovf, FALSE, FALSE, 0)
         ELSE Comp([a EXCEPT !.balance = a.balance - (new_om - a.order_margin),
                             !.order_margin = new_om],
                   FALSE, ovf, FALSE, FALSE, 0)
    ELSE Comp([a EXCEPT !.order_margin = new_om],
              FALSE, ovf, FALSE, FALSE, a.order_margin - new_om)

update_order_margin(a) ==
    lock_order_margin(a, Wrap(max_bid_margin(a) + max_ask_margin(a)),
                      new_om_overflows(a))

new_margin_overflows(a) ==
    \/ Overflows(a.size * SATOSHIS_PER_BITCOIN)
    \/ divide_by_leverage_overflows(value(a))

\* Mutant of lock_position_margin: a decrease is returned but the position
\* margin is left as it was.
lock_position_margin_KeepExcess(a, new_margin, ovf) ==
    IF new_margin > a.position_margin
    THEN IF a.balance < new_margin - a.position_margin
         THEN Comp(a, TRUE, ovf, FALSE, FALSE, 0)
         ELSE Comp([a EXCEPT !.balance = a.balance - (new_margin - a.position_margin),
                             !.position_margin = new_margin],
                   FALSE, ovf, FALSE, FALSE, 0)
    ELSE Comp(a, FALSE, ovf, FALSE, FALSE, a.position_margin - new_margin)

\* The position margin is brought to new_margin: the increase is taken from
\* the balance, or the call bails; a decrease is returned.
lock_position_margin(a, new_margin, ovf) ==
    IF new_margin > a.position_margin
    THEN IF a.balance < new_margin - a.position_margin
         THEN Comp(a, TRUE, ovf, FALSE, FALSE, 0)
         ELSE Comp([a EXCEPT !.balance = a.balance - (new_margin - a.position_margin),
                             !.position_margin = new_margin],
                   FALSE, ovf, FALSE, FALSE, 0)
    ELSE Comp([a EXCEPT !.position_margin = new_margin],
              FALSE, ovf, FALSE, FALSE, a.position_margin - new_margin)

update_position_margin(a) ==
    lock_position_margin(a, divide_by_leverage(a, value(a)), new_margin_overflows(a))

\* Mutant of add_to_position: a fill of exactly the position's size reverses it.
add_to_position_FlipAtZero(a, size, side) ==
    IF side = a.side THEN [a EXCEPT !.size = Wrap(a.size + size)]
    ELSE IF size >= a.size THEN [a EXCEPT !.size = size - a.size, !.side = side]
    ELSE [a EXCEPT !.size = a.size - size]

add_to_position(a, size, side) ==
    IF side = a.side THEN [a EXCEPT !.size = Wrap(a.size + size)]
    ELSE IF size > a.size THEN [a EXCEPT !.size = size - a.size, !.side = side]
    ELSE [a EXCEPT !.size = a.size - size]

\* The entry price of a growing position: the size-weighted average.
WeightedEntryPrice(a, order) ==
    LET new_size == Wrap(order.size + a.size)
        ratio == Wrap(PRICE_PRECISION * order.size) \div new_size
    IN Wrap(Wrap(ratio * order.price)
              + Wrap((PRICE_PRECISION - ratio) * a.entry_price))
          \div PRICE_PRECISION

\* Mutant of update_entry_price: a reversed position keeps its entry price.
update_entry_price_KeepOnFlip(a, order, position_increasing) ==
    IF position_increasing
    THEN [a EXCEPT !.entry_price = WeightedEntryPrice(a, order)]
    ELSE a

update_entry_price(a, order, position_increasing) ==
    LET position_reversing == ~position_increasing /\ order.size > a.size
    IN IF position_increasing
       THEN [a EXCEPT !.entry_price = WeightedEntryPrice(a, order)]
       ELSE IF ~position_reversing THEN a
       ELSE [a EXCEPT !.entry_price = order.price]

\* update_entry_price divides by order.size + self.size.
update_entry_price_panics(a, order, position_increasing) ==
    position_increasing /\ Wrap(order.size + a.size) = 0

\* The amount of the position of prev that the fill has closed.
amount_reduced(a, prev) ==
    IF a.side # prev.side THEN prev.size
    ELSE IF a.size > prev.size THEN 0
    ELSE prev.size - a.size

\* What add_pnl pays and receives, and whether it counts as a gain.
Settlement(prev, reduced, price) ==
    LET sats == Wrap(reduced * SATOSHIS_PER_BITCOIN)
    IN IF prev.side = "Long"
       THEN [to_pay |-> sats \div price, to_receive |-> sats \div prev.entry_price,
             gained |-> price > prev.entry_price]
       ELSE [to_pay |-> sats \div prev.entry_price, to_receive |-> sats \div price,
             gained |-> price < prev.entry_price]

\* Mutant of settle: a loss is credited.
settle_LossCredited(a, s, sovf) ==
    IF s.gained
    THEN Comp([a EXCEPT !.balance = Wrap(a.balance + (s.to_receive - s.to_pay))],
              FALSE, sovf \/ Overflows(a.balance + (s.to_receive - s.to_pay)),
              FALSE, FALSE, 0)
    ELSE Comp([a EXCEPT !.balance = Wrap(a.balance + (s.to_pay - s.to_receive))],
              FALSE, sovf \/ Overflows(a.balance + (s.to_pay - s.to_receive)),
              FALSE, FALSE, 0)

\* The settlement s is applied to the balance: a profit is credited, a loss
\* debited.
settle(a, s, sovf) ==
    IF s.gained
    THEN Comp([a EXCEPT !.balance = Wrap(a.balance + (s.to_receive - s.to_pay))],
              FALSE, sovf \/ Overflows(a.balance + (s.to_receive - s.to_pay)),
              FALSE, FALSE, 0)
    ELSE Comp([a EXCEPT !.balance = Wrap(a.balance - (s.to_pay - s.to_receive))],
              FALSE, sovf \/ Overflows(a.balance - (s.to_pay - s.to_receive)),
              FALSE, a.balance < s.to_pay - s.to_receive, 0)

add_pnl_reduced(a, prev, reduced, price) ==
    IF reduced = 0 THEN Comp(a, FALSE, FALSE, FALSE, FALSE, 0)
    ELSE IF prev.entry_price = 0 THEN Comp(a, FALSE, FALSE, TRUE, FALSE, 0)
    ELSE settle(a, Settlement(prev, reduced, price),
                Overflows(reduced * SATOSHIS_PER_BITCOIN))

add_pnl(a, prev, price) == add_pnl_reduced(a, prev, amount_reduced(a, prev), price)

\* The cost of an order is added to the reserved notional of its side.
reserve(a, side, amount) ==
    IF side = "Long"
    THEN [a EXCEPT !.max_bid_margin = Wrap(a.max_bid_margin + amount)]
    ELSE [a EXCEPT !.max_ask_margin = Wrap(a.max_ask_margin + amount)]

reserve_overflows(a, side, order) ==
    \/ Overflows(order.size * SATOSHIS_PER_BITCOIN)
    \/ Overflows((IF side = "Long" THEN a.max_bid_margin ELSE a.max_ask_margin)
                    + cost(order))

\* create_order after the rebalance c: the debug assertion that nothing was
\* unlocked; what was unlocked is dropped.
create_order_unlocked(c, ovf) ==
    IF c.err THEN Comp(c.a, TRUE, ovf \/ c.ovf, FALSE, FALSE, 0)
    ELSE Comp(c.a, FALSE, ovf \/ c.ovf \/ c.out # 0, FALSE, FALSE, 0)

create_order(a, side, order) ==
    create_order_unlocked(update_order_margin(reserve(a, side, cost(order))),
                          reserve_overflows(a, side, order))

\* The side a fill adds to: the maker's side for the maker, the other side
\* for the taker.
FillSide(maker_side, is_own_order) ==
    IF is_own_order THEN maker_side ELSE Other(maker_side)

position_increasing(a, maker_side, is_own_order) ==
    (maker_side = a.side) /\ is_own_order

\* A flat account takes the side of the fill.
adopt_side(a, maker_side, is_own_order) ==
    IF a.size = 0 THEN [a EXCEPT !.side = FillSide(maker_side, is_own_order)] ELSE a

\* The entry price and the position of prev_self after the fill.
position_filled(prev_self, side, maker_order, increasing) ==
    IF update_entry_price_panics(prev_self, maker_order, increasing)
    THEN [prev_self |-> prev_self, a |-> prev_self, pan |-> TRUE, ovf |-> FALSE]
    ELSE [prev_self |-> prev_self,
          a |-> add_to_position(update_entry_price(prev_self, maker_order, increasing),
                                maker_order.size, side),
          pan |-> FALSE,
          ovf |-> side = prev_self.side
                    /\ Overflows(prev_self.size + maker_order.size)]

\* fill_order up to the margin updates: the side of a flat account, the entry
\* price and the position.
fill_position(a, maker_side, maker_order, is_own_order) ==
    position_filled(adopt_side(a, maker_side, is_own_order),
                    FillSide(maker_side, is_own_order), maker_order,
                    position_increasing(adopt_side(a, maker_side, is_own_order),
                                        maker_side, is_own_order))

\* The cost of a filled order is taken off the reserved notional of its side.
release(a, maker_side, amount) ==
    IF maker_side = "Long"
    THEN [a EXCEPT !.max_bid_margin = Wrap(a.max_bid_margin - amount)]
    ELSE [a EXCEPT !.max_ask_margin = Wrap(a.max_ask_margin - amount)]

release_overflows(a, maker_side, maker_order) ==
    \/ Overflows(maker_order.size * SATOSHIS_PER_BITCOIN)
    \/ Overflows((IF maker_side = "Long" THEN a.max_bid_margin ELSE a.max_ask_margin)
                    - cost(maker_order))

\* What the order margin rebalance c has unlocked goes to the position margin
\* when the margin requirement grows, else to the balance.
route_unlocked(c, margin_increasing, ovf, pan) ==
    IF c.err THEN Comp(c.a, TRUE, ovf \/ c.ovf, pan, FALSE, 0)
    ELSE IF margin_increasing
    THEN Comp([c.a EXCEPT !.position_margin = Wrap(c.a.position_margin + c.out)],
              FALSE, ovf \/ c.ovf \/ Overflows(c.a.position_margin + c.out),
              pan, FALSE, 0)
    ELSE Comp([c.a EXCEPT !.balance = Wrap(c.a.balance + c.out)],
              FALSE, ovf \/ c.ovf \/ Overflows(c.a.balance + c.out), pan, FALSE, 0)

\* The order margin of an account whose own order has been released.
rebalance_released(a, ovf) ==
    route_unlocked(update_order_margin(a),
                   divide_by_leverage(a, value(a)) > a.position_margin,
                   ovf \/ divide_by_leverage_overflows(value(a)),
                   value_panics(a))

\* fill_order for the account's own order: the reserved notional is released
\* and the order margin rebalanced.
fill_own_margin(a, maker_side, maker_order) ==
    rebalance_released(release(a, maker_side, cost(maker_order)),
                       release_overflows(a, maker_side, maker_order))

\* The balance is credited with what a rebalance u has returned.
credit_returned(u, ovf, pan) ==
    IF u.err \/ pan THEN Comp(u.a, u.err, ovf \/ u.ovf, pan, FALSE, 0)
    ELSE Comp([u.a EXCEPT !.balance = Wrap(u.a.balance + u.out)],
              FALSE, ovf \/ u.ovf \/ Overflows(u.a.balance + u.out),
              FALSE, FALSE, 0)

\* The position margin after the order margin part m of a fill.
fill_position_margin(m, ovf) ==
    IF m.err \/ m.pan THEN Comp(m.a, m.err, ovf \/ m.ovf, m.pan, FALSE, 0)
    ELSE credit_returned(update_position_margin(m.a), ovf \/ m.ovf,
                         value_panics(m.a))

fill_margins_positioned(p, maker_side, maker_order, is_own_order) ==
    IF p.pan THEN Comp(p.a, FALSE, p.ovf, TRUE, FALSE, 0)
    ELSE fill_position_margin(
             IF is_own_order THEN fill_own_margin(p.a, maker_side, maker_order)
             ELSE Comp(p.a, FALSE, FALSE, FALSE, FALSE, 0),
             p.ovf)

\* fill_order up to the settlement: the position, then the margins.
fill_margins(a, maker_side, maker_order, is_own_order) ==
    fill_margins_positioned(fill_position(a, maker_side, maker_order, is_own_order),
                            maker_side, maker_order, is_own_order)

\* The outcome g of the settlement, with the overflow flag of the updates f
\* before it.
settled(f, g) == Comp(g.a, FALSE, f.ovf \/ g.ovf, g.pan, g.neg, 0)

\* The settlement against prev_self after the margin updates f.
fill_settled(f, prev_self, price) ==
    IF f.err \/ f.pan THEN f
    ELSE settled(f, add_pnl(f.a, prev_self, price))

fill_order(a, maker_side, maker_order, is_own_order) ==
    fill_settled(fill_margins(a, maker_side, maker_order, is_own_order),
                 adopt_side(a, maker_side, is_own_order), maker_order.price)

\* adjust_leverage after the position margin part u: the order margin.
adjust_order_margin(u) ==
    IF u.err \/ u.pan THEN u
    ELSE credit_returned(update_order_margin(u.a), u.ovf, FALSE)

adjust_leverage(a, leverage) ==
    adjust_order_margin(
        credit_returned(
            update_position_margin([a EXCEPT !.desired_leverage = leverage]),
            leverage < LEVERAGE_PRECISION \/ leverage > MAX_LEVERAGE,
            value_panics(a)))

(***************************************************************************)
(* State: the two sides of OrderBookState, the last call, what it returned *)
(* and the size of the entry that its insert has overwritten, if any; a    *)
(* margin account, the last call on it and what it returned,   *)
(* whether the build checks overflow and debug assertions, and the number  *)
(* of calls made on the account; the last divide_by_leverage on its own;   *)
(* the account store of the chain and what the last transaction handler    *)
(* returned; the orders the account registered with create_order and the   *)
(* size of each that is not yet filled.                                    *)
(***************************************************************************)
VARIABLES bids, asks, call, ret, replaced, acct, acall, aret, build, calls,
          division, accounts, txret, registered

vars == <<bids, asks, call, ret, replaced, acct, acall, aret, build, calls,
          division, accounts, txret, registered>>

bookVars == <<bids, asks, call, ret, replaced>>

acctVars == <<acct, acall, aret, build, calls, division, registered>>

txVars == <<accounts, txret>>

Call(op, side, size, creator, price, height) ==
    [op |-> op, side |-> side, size |-> size, creator |-> creator,
     price |-> price, height |-> height]

PlaceResultDefault == [total_fill_size |-> 0, fills |-> << >>]

Ok(val) == [ok |-> TRUE, value |-> val]

\* A call on the account: create_order(side, order), fill_order(side, order,
\* is_own_order) or adjust_leverage(leverage).
ACall(op, side, order, is_own_order, leverage) ==
    [op |-> op, side |-> side, order |-> order, is_own_order |-> is_own_order,
     leverage |-> leverage]

\* What a call on the account came to: "Ok", "Err" or "Panic", and whether it
\* debited more than the balance.
ARet(status, neg) == [status |-> status, neg |-> neg]

\* divide_by_leverage(n) and what it came to: "None" before any call, "Ok"
\* with the value out, or "Panic".
Division(n, out, status) == [n |-> n, out |-> out, status |-> status]

InitBook ==
    /\ bids = EmptyMap
    /\ asks = EmptyMap
    /\ call = Call("new", "Buy", 0, 0, 0, 0)
    /\ ret = Ok(PlaceResultDefault)
    /\ replaced = None

\* The account store: every creator has an account.
InitStore ==
    /\ accounts = [creator \in Creators |-> Account(0)]
    /\ txret = "Ok"

Init ==
    /\ InitBook
    /\ InitStore
    /\ acct = Account(0)
    /\ acall = ACall("new", "Long", Order(0, 0, 0, 0), FALSE, 0)
    /\ aret = ARet("Ok", FALSE)
    /\ build = "release"
    /\ calls = 0
    /\ division = Division(0, 0, "None")
    /\ registered = EmptyMap

place_limit_sell(size, creator, price, height) ==
    LET m == match_orders("Bid", bids, size, creator, "Sell", Some(price))
        rest == Order(price, creator, height, size - m.result.total_fill_size)
    IN /\ bids' = m.orders
       /\ asks' = EntryMapInsert("Ask", asks, rest)
       /\ Cardinality(DOMAIN bids') + Cardinality(DOMAIN asks') <= MaxOrders
       /\ replaced' = Resting("Ask", asks, rest)
       /\ call' = Call("place_limit_sell", "Sell", size, creator, price, height)
       /\ ret' = Ok(m.result)

\* Mutant of place_limit_buy: the whole requested size is left resting.
place_limit_buy_FullSize(size, creator, price, height) ==
    LET m == match_orders("Ask", asks, size, creator, "Buy", Some(price))
        rest == Order(price, creator, height, size)
    IN /\ asks' = m.orders
       /\ bids' = EntryMapInsert("Bid", bids, rest)
       /\ Cardinality(DOMAIN bids') + Cardinality(DOMAIN asks') <= MaxOrders
       /\ replaced' = Resting("Bid", bids, rest)
       /\ call' = Call("place_limit_buy", "Buy", size, creator, price, height)
       /\ ret' = Ok(m.result)

place_limit_buy(size, creator, price, height) ==
    LET m == match_orders("Ask", asks, size, creator, "Buy", Some(price))
        rest == Order(price, creator, height, size - m.result.total_fill_size)
    IN /\ asks' = m.orders
       /\ bids' = EntryMapInsert("Bid", bids, rest)
       /\ Cardinality(DOMAIN bids') + Cardinality(DOMAIN asks') <= MaxOrders
       /\ replaced' = Resting("Bid", bids, rest)
       /\ call' = Call("place_limit_buy", "Buy", size, creator, price, height)
       /\ ret' = Ok(m.result)

\* Mutant of place_market_buy: the unfilled remainder rests as a bid at the
\* price of the last fill.
place_market_buy_Rests(size, creator) ==
    LET m == match_orders("Ask", asks, size, creator, "Buy", None)
        n == Len(m.result.fills)
        rest == Order(m.result.fills[n].price, creator, 1,
                      size - m.result.total_fill_size)
    IN /\ asks' = m.orders
       /\ bids' = IF n > 0 /\ m.result.total_fill_size < size
                  THEN EntryMapInsert("Bid", bids, rest)
                  ELSE bids
       /\ replaced' = None
       /\ call' = Call("place_market_buy", "Buy", size, creator, 0, 0)
       /\ ret' = Ok(m.result)

place_market_buy(size, creator) ==
    LET m == match_orders("Ask", asks, size, creator, "Buy", None)
    IN /\ asks' = m.orders
       /\ bids' = bids
       /\ replaced' = None
       /\ call' = Call("place_market_buy", "Buy", size, creator, 0, 0)
       /\ ret' = Ok(m.result)

place_market_sell(size, creator) ==
    LET m == match_orders("Bid", bids, size, creator, "Sell", None)
    IN /\ bids' = m.orders
       /\ asks' = asks
       /\ replaced' = None
       /\ call' = Call("place_market_sell", "Sell", size, creator, 0, 0)
       /\ ret' = Ok(m.result)

\* Mutant of cancel_order: a bid is looked up under the key of an ask.
cancel_order_AskKey(side, key) ==
    LET order == Order(key.price, key.creator, key.height, 0)
    IN /\ IF side = "Sell"
          THEN asks' = EntryMapDelete("Ask", asks, order) /\ bids' = bids
          ELSE bids' = EntryMapDelete("Ask", bids, order) /\ asks' = asks
       /\ replaced' = None
       /\ call' = Call("cancel_order", side, 0, key.creator, key.price, key.height)
       /\ ret' = Ok(PlaceResultDefault)

cancel_order(side, key) ==
    LET order == Order(key.price, key.creator, key.height, 0)
    IN /\ IF side = "Sell"
          THEN asks' = EntryMapDelete("Ask", asks, order) /\ bids' = bids
          ELSE bids' = EntryMapDelete("Bid", bids, order) /\ asks' = asks
       /\ replaced' = None
       /\ call' = Call("cancel_order", side, 0, key.creator, key.price, key.height)
       /\ ret' = Ok(PlaceResultDefault)

PlaceLimitSell ==
    \E size \in Sizes, creator \in Creators, price \in Prices, height \in Heights :
        place_limit_sell(size, creator, price, height)
            /\ UNCHANGED <<acctVars, txVars>>

PlaceLimitBuy ==
    \E size \in Sizes, creator \in Creators, price \in Prices, height \in Heights :
        place_limit_buy(size, creator, price, height)
            /\ UNCHANGED <<acctVars, txVars>>

PlaceMarketBuy ==
    \E size \in Sizes, creator \in Creators :
        place_market_buy(size, creator)
            /\ UNCHANGED <<acctVars, txVars>>

PlaceMarketSell ==
    \E size \in Sizes, creator \in Creators :
        place_market_sell(size, creator)
            /\ UNCHANGED <<acctVars, txVars>>

CancelOrder ==
    \E side \in {"Buy", "Sell"}, price \in Prices, creator \in Creators, height \in Heights :
        cancel_order(side, OrderKey(price, creator, height))
            /\ UNCHANGED <<acctVars, txVars>>

Next ==
    \/ PlaceLimitSell
    \/ PlaceLimitBuy
    \/ PlaceMarketBuy
    \/ PlaceMarketSell
    \/ CancelOrder

Spec == Init /\ [][Next]_vars

(***************************************************************************)
(* The margin account on its own: an account created by Account::new with  *)
(* some balance, in a debug or a release build, under any sequence of      *)
(* create_order, fill_order and adjust_leverage calls.  A panic ends the   *)
(* process with the account as it was before the call.  Up to MaxCalls      *)
(* calls are taken, while the fields of the account are within MaxFunds    *)
(* and MaxPosition.                                                        *)
(***************************************************************************)
MaxCalls == 4
MaxFunds == 40
MaxPosition == 2
LowBalance == 4
HighBalance == 20

Balances == {LowBalance, HighBalance}

Leverages == {LEVERAGE_PRECISION \div 2, LEVERAGE_PRECISION, 2 * LEVERAGE_PRECISION,
              2 * MAX_LEVERAGE}

Directions == {"Long", "Short"}

Builds == {"debug", "release"}

\* The orders an account is called with: Order.price is never zero.
Orders == {Order(price, 0, 0, size) : price \in Prices, size \in Sizes}

Bounded(a) ==
    /\ a.balance <= MaxFunds
    /\ a.order_margin <= MaxFunds
    /\ a.position_margin <= MaxFunds
    /\ a.max_bid_margin <= MaxFunds
    /\ a.max_ask_margin <= MaxFunds
    /\ a.size <= MaxPosition

Status(c) ==
    IF c.pan \/ (build = "debug" /\ c.ovf) THEN "Panic"
    ELSE IF c.err THEN "Err"
    ELSE "Ok"

\* The account after a call that came to c, and what the call returned.
Return(c) ==
    /\ acct' = IF Status(c) = "Panic" THEN acct ELSE c.a
    /\ aret' = ARet(Status(c), c.neg)
    /\ calls' = calls + 1

Running == aret.status # "Panic" /\ Bounded(acct) /\ calls < MaxCalls

CreateOrder ==
    \E side \in Directions, order \in Orders :
        /\ Running
        /\ acall' = ACall("create_order", side, order, FALSE, 0)
        /\ Return(create_order(acct, side, order))
        /\ UNCHANGED <<bookVars, txVars, build, division, registered>>

FillOrder ==
    \E maker_side \in Directions, maker_order \in Orders, is_own_order \in BOOLEAN :
        /\ Running
        /\ acall' = ACall("fill_order", maker_side, maker_order, is_own_order, 0)
        /\ Return(fill_order(acct, maker_side, maker_order, is_own_order))
        /\ UNCHANGED <<bookVars, txVars, build, division, registered>>

AdjustLeverage ==
    \E leverage \in Leverages :
        /\ Running
        /\ acall' = ACall("adjust_leverage", "Long", Order(0, 0, 0, 0), FALSE, leverage)
        /\ Return(adjust_leverage(acct, leverage))
        /\ UNCHANGED <<bookVars, txVars, build, division, registered>>

InitAccount ==
    /\ InitBook
    /\ InitStore
    /\ \E balance \in Balances : acct = Account(balance)
    /\ acall = ACall("new", "Long", Order(0, 0, 0, 0), FALSE, 0)
    /\ aret = ARet("Ok", FALSE)
    /\ build \in Builds
    /\ calls = 0
    /\ division = Division(0, 0, "None")
    /\ registered = EmptyMap

NextAccount ==
    \/ CreateOrder
    \/ FillOrder
    \/ AdjustLeverage

SpecAccount == InitAccount /\ [][NextAccount]_vars

(***************************************************************************)
(* Longer runs of the margin account: up to MaxRunCalls calls, with orders *)
(* of positive size at price 1 and the leverages 1x and 2x.                *)
(***************************************************************************)
MaxRunCalls == 5

RunOrders == {Order(1, 0, 0, size) : size \in 1..MaxSize}

RunLeverages == {LEVERAGE_PRECISION, 2 * LEVERAGE_PRECISION}

InRun == aret.status # "Panic" /\ Bounded(acct) /\ calls < MaxRunCalls

RunCreateOrder ==
    \E side \in Directions, order \in RunOrders :
        /\ InRun
        /\ acall' = ACall("create_order", side, order, FALSE, 0)
        /\ Return(create_order(acct, side, order))
        /\ UNCHANGED <<bookVars, txVars, build, division, registered>>

RunFillOrder ==
    \E maker_side \in Directions, maker_order \in RunOrders, is_own_order \in BOOLEAN :
        /\ InRun
        /\ acall' = ACall("fill_order", maker_side, maker_order, is_own_order, 0)
        /\ Return(fill_order(acct, maker_side, maker_order, is_own_order))
        /\ UNCHANGED <<bookVars, txVars, build, division, registered>>

RunAdjustLeverage ==
    \E leverage \in RunLeverages :
        /\ InRun
        /\ acall' = ACall("adjust_leverage", "Long", Order(0, 0, 0, 0), FALSE, leverage)
        /\ Return(adjust_leverage(acct, leverage))
        /\ UNCHANGED <<bookVars, txVars, build, division, registered>>

NextRun ==
    \/ RunCreateOrder
    \/ RunFillOrder
    \/ RunAdjustLeverage

SpecRun == InitAccount /\ [][NextRun]_vars

(***************************************************************************)
(* An account whose own orders are filled: create_order registers an order *)
(* and fill_order, as the maker, fills an order that is registered, whole  *)
(* or in part.  The run ends at the first call that fails.  The prices     *)
(* include one that does not divide SATOSHIS_PER_BITCOIN, where            *)
(* Order::cost rounds.                                                     *)
(***************************************************************************)
MaxReleaseCalls == 4

ReleasePrices == {1, 2 * MaxPrice}

ReleaseOrders == {Order(price, 0, 0, size) : price \in ReleasePrices, size \in 1..MaxSize}

\* An order the account registered and the size of it no fill has consumed.
Registered(side, price, size) == [side |-> side, price |-> price, size |-> size]

Releasing == aret.status = "Ok" /\ Bounded(acct) /\ calls < MaxReleaseCalls

RegisterOrder ==
    \E side \in Directions, order \in ReleaseOrders :
        /\ Releasing
        /\ Len(registered) < MaxOrders
        /\ acall' = ACall("create_order", side, order, FALSE, 0)
        /\ Return(create_order(acct, side, order))
        /\ registered' =
              IF Status(create_order(acct, side, order)) = "Ok"
              THEN Append(registered, Registered(side, order.price, order.size))
              ELSE registered
        /\ UNCHANGED <<bookVars, txVars, build, division>>

\* A fill of one registered order, of at most the size it has left.
ConsumeOrder ==
    \E i \in 1..Len(registered), size \in 1..MaxSize :
        LET maker_side == registered[i].side
            maker_order == Order(registered[i].price, 0, 0, size)
        IN /\ Releasing
           /\ size <= registered[i].size
           /\ acall' = ACall("fill_order", maker_side, maker_order, TRUE, 0)
           /\ Return(fill_order(acct, maker_side, maker_order, TRUE))
           /\ registered' =
                 IF Status(fill_order(acct, maker_side, maker_order, TRUE)) = "Ok"
                 THEN [registered EXCEPT ![i].size = @ - size]
                 ELSE registered
           /\ UNCHANGED <<bookVars, txVars, build, division>>

NextRelease ==
    \/ RegisterOrder
    \/ ConsumeOrder

SpecRelease == InitAccount /\ [][NextRelease]_vars

(***************************************************************************)
(* divide_by_leverage on its own: one call on an account with a leverage   *)
(* between 1x and 100x, for every n up to MaxNotional.                     *)
(***************************************************************************)
MaxNotional == 1700

Notionals == 0..MaxNotional

LeveragesInRange ==
    {LEVERAGE_PRECISION, 2 * LEVERAGE_PRECISION, 3 * LEVERAGE_PRECISION, MAX_LEVERAGE}

DivideByLeverage ==
    \E n \in Notionals :
        /\ division.status = "None"
        /\ division' =
               IF build = "debug" /\ divide_by_leverage_overflows(n)
               THEN Division(n, 0, "Panic")
               ELSE Division(n, divide_by_leverage(acct, n), "Ok")
        /\ UNCHANGED <<bookVars, txVars, acct, acall, aret, build, calls, registered>>

InitDivide ==
    /\ InitBook
    /\ InitStore
    /\ \E leverage \in LeveragesInRange :
           acct = [Account(0) EXCEPT !.desired_leverage = leverage]
    /\ acall = ACall("new", "Long", Order(0, 0, 0, 0), FALSE, 0)
    /\ aret = ARet("Ok", FALSE)
    /\ build \in Builds
    /\ calls = 0
    /\ division = Division(0, 0, "None")
    /\ registered = EmptyMap

NextDivide == DivideByLeverage

SpecDivide == InitDivide /\ [][NextDivide]_vars

(***************************************************************************)
(* The transaction handlers of src/chain/chain/market/handlers.rs, on the  *)
(* order book and the account store.  The store maps an address to its     *)
(* account; get yields None for an address without one.  The fee, creator  *)
(* length and signature checks of a handler are the input admissible.     *)
(* Up to MaxTx transactions are handled; a panic ends the process.         *)
(***************************************************************************)
MaxTx == 2

Addresses == 0..MaxCreator

Nonces == 0..(MaxTx - 1)

AccountGet(store, address) ==
    IF address \in DOMAIN store THEN Some(store[address]) ELSE None

\* The order a placement has left resting, for the taker's create_order: the
\* unfilled remainder of a limit order, nothing for a market order.
new_order(price, creator, height, size, result) ==
    IF price = None THEN None
    ELSE Some(Order(price[1], creator, height, size - result.total_fill_size))

\* The handler's work in progress: the taker's account, the store, and
\* whether it has bailed, overflowed or panicked.
TxComp(taker, store, err, ovf, pan) ==
    [taker |-> taker, store |-> store, err |-> err, ovf |-> ovf, pan |-> pan]

RECURSIVE ApplyFills(_, _, _, _, _)

\* The maker's part m of fill i, after the taker's part t: the maker's
\* account is written back and the loop goes on.
fill_maker(fills, i, side, store, t, m) ==
    IF m.err \/ m.pan THEN TxComp(t.a, store, m.err, t.ovf \/ m.ovf, m.pan)
    ELSE [ApplyFills(fills, i + 1, side, t.a, MapInsert(store, fills[i].creator, m.a))
             EXCEPT !.ovf = @ \/ t.ovf \/ m.ovf]

\* The taker's part t of fill i, then the maker's account is read and filled.
fill_taker(fills, i, side, store, t) ==
    IF t.err \/ t.pan THEN TxComp(t.a, store, t.err, t.ovf, t.pan)
    ELSE IF AccountGet(store, fills[i].creator) = None
    THEN TxComp(t.a, store, TRUE, t.ovf, FALSE)
    ELSE fill_maker(fills, i, side, store, t,
                    fill_order(AccountGet(store, fills[i].creator)[1], side,
                               fills[i], TRUE))

\* The loop over the fills from fill i on: the taker's account is filled,
\* then the maker's account is read, filled and written back.
ApplyFills(fills, i, side, taker, store) ==
    IF i > Len(fills) THEN TxComp(taker, store, FALSE, FALSE, FALSE)
    ELSE fill_taker(fills, i, side, store,
                    fill_order(taker, Other(side), fills[i], FALSE))

\* The taker's account after its create_order c.
created(f, c) == TxComp(c.a, f.store, c.err, f.ovf \/ c.ovf, c.pan)

\* The taker's create_order for the order left resting, if any.
CreateResting(f, side, maybe_order) ==
    IF f.err \/ f.pan \/ maybe_order = None THEN f
    ELSE created(f, create_order(f.taker, side, maybe_order[1]))

TxStatus(f) ==
    IF f.pan \/ (build = "debug" /\ f.ovf) THEN "Panic"
    ELSE IF f.err THEN "Err"
    ELSE "Ok"

\* The placement of the order book a transaction calls for.
Place(side, price, size, creator, height) ==
    IF side = "Long"
    THEN IF price = None THEN place_market_buy(size, creator)
         ELSE place_limit_buy(size, creator, price[1], height)
    ELSE IF price = None THEN place_market_sell(size, creator)
         ELSE place_limit_sell(size, creator, price[1], height)

Handling == txret # "Panic" /\ calls < MaxTx

\* The end of place_order_tx: the nonce of the taker's account is raised and
\* the account written to the store, unless the handler has returned before.
finish_order(creator, f) ==
    /\ txret' = TxStatus(f)
    /\ accounts' = IF TxStatus(f) = "Ok"
                   THEN MapInsert(f.store, creator, [f.taker EXCEPT !.nonce = @ + 1])
                   ELSE f.store

place_order_tx(admissible, creator, nonce, side, price, size, height) ==
    LET maybe_taker_account == AccountGet(accounts, creator)
    IN IF \/ ~admissible
          \/ (price # None /\ price[1] = 0)
          \/ maybe_taker_account = None
          \/ nonce # maybe_taker_account[1].nonce
       THEN /\ txret' = "Err"
            /\ UNCHANGED <<bookVars, accounts>>
       ELSE /\ Place(side, price, size, creator, height)
            /\ finish_order(creator,
                   CreateResting(
                       ApplyFills(ret'.value.fills, 1, side,
                                  maybe_taker_account[1], accounts),
                       side, new_order(price, creator, height, size, ret'.value)))

update_leverage_tx(admissible, creator, nonce, leverage_preference) ==
    LET maybe_creator_account == AccountGet(accounts, creator)
    IN /\ txret' = IF \/ ~admissible
                      \/ leverage_preference < LEVERAGE_PRECISION
                      \/ maybe_creator_account = None
                      \/ nonce # maybe_creator_account[1].nonce
                   THEN "Err" ELSE "Ok"
       /\ UNCHANGED <<bookVars, accounts>>

PlaceOrderTx ==
    \E admissible \in BOOLEAN, creator \in Addresses, nonce \in Nonces,
       side \in Directions, price \in {None} \cup {Some(p) : p \in 0..MaxPrice},
       size \in Sizes, height \in Heights :
        /\ Handling
        /\ place_order_tx(admissible, creator, nonce, side, price, size, height)
        /\ calls' = calls + 1
        /\ UNCHANGED <<acct, acall, aret, build, division, registered>>

UpdateLeverageTx ==
    \E admissible \in BOOLEAN, creator \in Addresses, nonce \in Nonces,
       leverage_preference \in Leverages :
        /\ Handling
        /\ update_leverage_tx(admissible, creator, nonce, leverage_preference)
        /\ calls' = calls + 1
        /\ UNCHANGED <<acct, acall, aret, build, division, registered>>

InitTx ==
    /\ InitBook
    /\ accounts \in [Creators -> {Account(balance) : balance \in Balances}]
    /\ txret = "Ok"
    /\ acct = Account(0)
    /\ acall = ACall("new", "Long", Order(0, 0, 0, 0), FALSE, 0)
    /\ aret = ARet("Ok", FALSE)
    /\ build \in Builds
    /\ calls = 0
    /\ division = Division(0, 0, "None")
    /\ registered = EmptyMap

NextTx ==
    \/ PlaceOrderTx
    \/ UpdateLeverageTx

SpecTx == InitTx /\ [][NextTx]_vars

(***************************************************************************)
(* Longer runs of accepted transactions: up to MaxRunTx place_order_tx     *)
(* transactions, each well formed and carrying its creator's stored nonce, *)
(* for a market order or a limit order at price 1, of size 1.  The run     *)
(* ends at the first transaction that is not accepted.                     *)
(***************************************************************************)
MaxRunTx == 5

RunPrices == {None, Some(1)}

InTxRun == txret = "Ok" /\ calls < MaxRunTx

RunPlaceOrderTx ==
    \E creator \in Creators, side \in Directions, price \in RunPrices :
        /\ InTxRun
        /\ place_order_tx(TRUE, creator, accounts[creator].nonce, side, price, 1, 1)
        /\ calls' = calls + 1
        /\ UNCHANGED <<acct, acall, aret, build, division, registered>>

NextTxRun == RunPlaceOrderTx

SpecTxRun == InitTx /\ [][NextTxRun]_vars

(***************************************************************************)
(* Vocabulary of the properties.                                           *)
(***************************************************************************)
Placements ==
    {"place_limit_buy", "place_limit_sell", "place_market_buy", "place_market_sell"}

BidsIter == EntryMapIter("Bid", bids)

AsksIter == EntryMapIter("Ask", asks)

Fills == ret.value.fills

RECURSIVE SumSizes(_)
SumSizes(orders) ==
    IF orders = << >> THEN 0 ELSE Head(orders).size + SumSizes(Tail(orders))

\* The entry type of the side a call matches against, and that side's map.
OppositeType(c) == IF c.side = "Buy" THEN "Ask" ELSE "Bid"

OppositeMap(c) == IF c.side = "Buy" THEN asks ELSE bids

\* The opposing side of call c in a book given by its two sides.
OppositeOf(c, b, a) == IF c.side = "Buy" THEN a ELSE b

KeyOf(T, order) == IntoEntry(T, order)[1]

\* The price of the order stored under key k of a map of entry type T.
PriceOf(T, k) == FromEntry(T, <<k, [size |-> 0]>>).price

(***************************************************************************)
(* C1: in every reachable book, iterating bids yields the resting orders   *)
(* in non-increasing price order and iterating asks yields them in         *)
(* non-decreasing price order.                                             *)
(***************************************************************************)
C1_PriceOrder ==
    /\ \A i, j \in DOMAIN BidsIter : i < j => BidsIter[i].price >= BidsIter[j].price
    /\ \A i, j \in DOMAIN AsksIter : i < j => AsksIter[i].price <= AsksIter[j].price

\* The bid placed last is the best one, and is iterated first.
C1_Witness ==
    /\ call.op = "place_limit_buy"
    /\ Len(BidsIter) >= 2
    /\ BidsIter[1].price = call.price
    /\ BidsIter[1].price > BidsIter[2].price

(***************************************************************************)
(* C2: on each side, of two resting orders with equal price the one with   *)
(* the lower placement height is iterated first, whoever created them     *)
(* (stated for the orders of positive size).                               *)
(***************************************************************************)
C2_TimePriority ==
    /\ \A i, j \in DOMAIN BidsIter :
         (i < j /\ BidsIter[i].price = BidsIter[j].price
                /\ BidsIter[i].size > 0 /\ BidsIter[j].size > 0)
            => BidsIter[i].height <= BidsIter[j].height
    /\ \A i, j \in DOMAIN AsksIter :
         (i < j /\ AsksIter[i].price = AsksIter[j].price
                /\ AsksIter[i].size > 0 /\ AsksIter[j].size > 0)
            => AsksIter[i].height <= AsksIter[j].height

(***************************************************************************)
(* C3: a placement by creator c returns no fill whose creator is c, and    *)
(* every order of c resting on the opposing side before the call rests     *)
(* there afterwards under the same key with the same size.                 *)
(***************************************************************************)
C3_SelfTradePrevention ==
    [][call'.op \in Placements =>
         /\ \A i \in DOMAIN ret'.value.fills :
                ret'.value.fills[i].creator # call'.creator
         /\ \A k \in DOMAIN OppositeOf(call', bids, asks) :
                k.creator = call'.creator
                   => /\ k \in DOMAIN OppositeOf(call', bids', asks')
                      /\ OppositeOf(call', bids', asks')[k]
                            = OppositeOf(call', bids, asks)[k]]_vars

\* The caller's own resting order is better priced than an order that was
\* filled: the scan went past it.
C3_Witness ==
    /\ call.op \in Placements
    /\ Len(Fills) >= 1
    /\ Fills[1].size > 0
    /\ \E k \in DOMAIN OppositeMap(call) :
          /\ k.creator = call.creator
          /\ OppositeMap(call)[k].size > 0
          /\ KeyLess(k, KeyOf(OppositeType(call), Fills[1]))

(***************************************************************************)
(* C4: for every placement the sizes of the returned fills add up to       *)
(* total_fill_size, and total_fill_size is at most the requested size.     *)
(***************************************************************************)
C4_FillConservation ==
    call.op \in Placements =>
        /\ SumSizes(Fills) = ret.value.total_fill_size
        /\ ret.value.total_fill_size <= call.size

\* A full fill followed by a partial one, whose order stays in the book.
C4_Witness ==
    /\ call.op \in Placements
    /\ Len(Fills) = 2
    /\ Fills[1].size > 0
    /\ Fills[2].size > 0
    /\ KeyOf(OppositeType(call), Fills[2]) \in DOMAIN OppositeMap(call)

(***************************************************************************)
(* C5: after place_limit_buy (place_limit_sell) returns Ok, the entry      *)
(* resting on the bid (ask) side under (price, creator, height) has size   *)
(* size - total_fill_size.                                                 *)
(***************************************************************************)
C5_RestingRemainder ==
    /\ (call.op = "place_limit_buy" /\ ret.ok) =>
          LET k == KeyOf("Bid", Order(call.price, call.creator, call.height, 0))
          IN /\ k \in DOMAIN bids
             /\ bids[k].size + ret.value.total_fill_size = call.size
    /\ (call.op = "place_limit_sell" /\ ret.ok) =>
          LET k == KeyOf("Ask", Order(call.price, call.creator, call.height, 0))
          IN /\ k \in DOMAIN asks
             /\ asks[k].size + ret.value.total_fill_size = call.size

\* A limit buy that was filled in part and rests the remainder.
C5_Witness ==
    /\ call.op = "place_limit_buy"
    /\ ret.ok
    /\ 0 < ret.value.total_fill_size
    /\ ret.value.total_fill_size < call.size

(***************************************************************************)
(* C6: place_market_buy leaves bids unchanged and place_market_sell leaves *)
(* asks unchanged, also when the opposing side is exhausted before the     *)
(* requested size is filled.                                               *)
(***************************************************************************)
C6_MarketNeverRests ==
    [][/\ call'.op = "place_market_buy" => bids' = bids
       /\ call'.op = "place_market_sell" => asks' = asks]_vars

\* A market buy that consumed the whole ask side and is still short.
C6_Witness ==
    /\ call.op = "place_market_buy"
    /\ 0 < ret.value.total_fill_size
    /\ ret.value.total_fill_size < call.size
    /\ asks = EmptyMap

(***************************************************************************)
(* C7: every fill of place_limit_buy has price <= the limit and every fill *)
(* of place_limit_sell has price >= the limit; the bound is inclusive: an  *)
(* order of another creator resting exactly at the limit price is filled   *)
(* unless the incoming order is filled completely without it.              *)
(***************************************************************************)
C7_LimitNeverCrosses ==
    [][/\ call'.op = "place_limit_buy" =>
            /\ \A i \in DOMAIN ret'.value.fills :
                   ret'.value.fills[i].price <= call'.price
            /\ \A k \in DOMAIN asks :
                   (k.creator # call'.creator /\ PriceOf("Ask", k) = call'.price)
                      => \/ ret'.value.total_fill_size = call'.size
                         \/ \E i \in DOMAIN ret'.value.fills :
                               KeyOf("Ask", ret'.value.fills[i]) = k
       /\ call'.op = "place_limit_sell" =>
            /\ \A i \in DOMAIN ret'.value.fills :
                   ret'.value.fills[i].price >= call'.price
            /\ \A k \in DOMAIN bids :
                   (k.creator # call'.creator /\ PriceOf("Bid", k) = call'.price)
                      => \/ ret'.value.total_fill_size = call'.size
                         \/ \E i \in DOMAIN ret'.value.fills :
                               KeyOf("Bid", ret'.value.fills[i]) = k]_vars

\* A limit sell filled by a bid resting exactly at its limit price.
C7_Witness ==
    /\ call.op = "place_limit_sell"
    /\ \E i \in DOMAIN Fills :
          /\ Fills[i].price = call.price
          /\ Fills[i].size > 0

(***************************************************************************)
(* C8: after cancel_order(side, key) returns Ok no entry rests under the   *)
(* key on that side and every other resting order is unchanged; and no     *)
(* later placement returns a fill with that key until an order with the    *)
(* same key is placed again: a key is absent after its cancellation, a     *)
(* key absent from a side enters it only through a limit placement on that *)
(* side with that very key, and every fill a placement returns has the key *)
(* of an order resting on the opposing side when the placement was made.   *)
(***************************************************************************)
C8_CancellationCorrectness ==
    [][/\ (call'.op = "cancel_order" /\ ret'.ok) =>
            LET T == IF call'.side = "Buy" THEN "Bid" ELSE "Ask"
                k == KeyOf(T, Order(call'.price, call'.creator, call'.height, 0))
                before == IF T = "Bid" THEN bids ELSE asks
                after == IF T = "Bid" THEN bids' ELSE asks'
            IN /\ k \notin DOMAIN after
               /\ DOMAIN after = (DOMAIN before) \ {k}
               /\ \A x \in DOMAIN after : after[x] = before[x]
               /\ IF T = "Bid" THEN asks' = asks ELSE bids' = bids
       /\ \A k \in (DOMAIN bids') \ (DOMAIN bids) :
            /\ call'.op = "place_limit_buy"
            /\ k = KeyOf("Bid", Order(call'.price, call'.creator, call'.height, 0))
       /\ \A k \in (DOMAIN asks') \ (DOMAIN asks) :
            /\ call'.op = "place_limit_sell"
            /\ k = KeyOf("Ask", Order(call'.price, call'.creator, call'.height, 0))
       /\ call'.op \in Placements =>
            \A i \in DOMAIN ret'.value.fills :
                KeyOf(OppositeType(call'), ret'.value.fills[i])
                    \in DOMAIN OppositeOf(call', bids, asks)]_vars

\* A cancellation on the ask side that left another ask resting.
C8_Witness ==
    /\ call.op = "cancel_order"
    /\ call.side = "Sell"
    /\ ret.ok
    /\ \E k \in DOMAIN asks : asks[k].size > 0

(***************************************************************************)
(* C9: cancel_order for a key that is not resting on the side returns an   *)
(* error and leaves both sides of the book unchanged.                      *)
(***************************************************************************)
C9_CancelAbsentFails ==
    [][call'.op = "cancel_order" =>
         LET T == IF call'.side = "Buy" THEN "Bid" ELSE "Ask"
             k == KeyOf(T, Order(call'.price, call'.creator, call'.height, 0))
             before == IF T = "Bid" THEN bids ELSE asks
         IN k \notin DOMAIN before
               => /\ ~ret'.ok
                  /\ bids' = bids
                  /\ asks' = asks]_vars

(***************************************************************************)
(* C10: a placement with requested size 0 returns total_fill_size = 0 and  *)
(* an empty fills list, and leaves both sides of the book as they were.    *)
(***************************************************************************)
C10_ZeroSizeNoOp ==
    [][(call'.op \in Placements /\ call'.size = 0) =>
          /\ ret'.value.total_fill_size = 0
          /\ ret'.value.fills = << >>
          /\ bids' = bids
          /\ asks' = asks]_vars


(***************************************************************************)
(* Properties of the matching algorithm and of the book around it.         *)
(***************************************************************************)
\* The order stored under key k of a map of entry type T.
OrderAt(T, map, k) == FromEntry(T, <<k, map[k]>>)

\* Whether order x comes before order y on a side of entry type T: by price
\* (descending for bids, ascending for asks), then creator, then height.
Precedes(T, x, y) ==
    \/ (IF T = "Bid" THEN x.price > y.price ELSE x.price < y.price)
    \/ x.price = y.price /\ x.creator < y.creator
    \/ x.price = y.price /\ x.creator = y.creator /\ x.height < y.height

\* The entry type of the side a limit order of call c rests on, that side in
\* a book given by its two sides, and the key the order is written under.
OwnType(c) == IF c.side = "Buy" THEN "Bid" ELSE "Ask"

OwnOf(c, b, a) == IF c.side = "Buy" THEN b ELSE a

OwnKey(c) == KeyOf(OwnType(c), Order(c.price, c.creator, c.height, 0))

IsLimit(c) == c.op \in {"place_limit_buy", "place_limit_sell"}

RECURSIVE TotalSize(_, _)
TotalSize(map, keys) ==
    IF keys = {} THEN 0
    ELSE LET k == CHOOSE x \in keys : TRUE
         IN map[k].size + TotalSize(map, keys \ {k})

\* C24: the fills of a placement follow the key order of the opposing side,
\* and every resting order of another creator that precedes a filled order
\* in that order is among the fills with its full size.
C24_FillsInBookOrder ==
    [][call'.op \in Placements =>
         LET T == OppositeType(call')
             opp == OppositeOf(call', bids, asks)
             fs == ret'.value.fills
         IN /\ \A i, j \in DOMAIN fs : i < j => Precedes(T, fs[i], fs[j])
            /\ \A k \in DOMAIN opp, j \in DOMAIN fs :
                   (/\ k.creator # call'.creator
                    /\ Precedes(T, OrderAt(T, opp, k), fs[j]))
                      => \E i \in DOMAIN fs : fs[i] = OrderAt(T, opp, k)]_vars

\* A market sell has filled the bid at price 2 and then the bid at price 1.
C24_Witness ==
    /\ call.op = "place_market_sell"
    /\ Len(Fills) = 2
    /\ Fills[1].price = 2
    /\ Fills[1].size = 1
    /\ Fills[2].price = 1
    /\ Fills[2].size = 1
    /\ bids = EmptyMap

\* C25: after a placement every resting order filled for its whole size is
\* absent from the book; a fill for less than the resting size is the last
\* of the fills, and its order rests under the same key with its size
\* reduced by the filled amount.  Every fill is measured against the book as
\* it was before the call: the deletions and the reinsertion come after the
\* scan.
C25_FullAndPartialFills ==
    [][call'.op \in Placements =>
         LET T == OppositeType(call')
             opp == OppositeOf(call', bids, asks)
             after == OppositeOf(call', bids', asks')
             fs == ret'.value.fills
         IN \A i \in DOMAIN fs :
               LET k == KeyOf(T, fs[i])
               IN /\ k \in DOMAIN opp
                  /\ IF fs[i].size = opp[k].size
                     THEN k \notin DOMAIN after
                     ELSE /\ i = Len(fs)
                          /\ k \in DOMAIN after
                          /\ after[k].size = opp[k].size - fs[i].size]_vars

\* A limit buy of 2 has filled an ask of 1 in full and 1 of an ask of 2:
\* the first is gone, the second rests with size 1.
C25_Witness ==
    /\ call.op = "place_limit_buy"
    /\ call.size = 2
    /\ Len(Fills) = 2
    /\ Fills[1].size = 1
    /\ Fills[2].size = 1
    /\ KeyOf("Ask", Fills[1]) \notin DOMAIN asks
    /\ KeyOf("Ask", Fills[2]) \in DOMAIN asks
    /\ asks[KeyOf("Ask", Fills[2])].size = 1

\* C26: a placement changes nothing else in the book: every order of the
\* opposing side that is not among the fills keeps its key and size and no
\* key is added there; on its own side a limit order writes the one entry
\* under its key, a market order nothing, and every other entry keeps its
\* key and size; the total resting size of the opposing side decreases by
\* total_fill_size.
C26_PlacementFrame ==
    [][call'.op \in Placements =>
         LET T == OppositeType(call')
             opp == OppositeOf(call', bids, asks)
             after == OppositeOf(call', bids', asks')
             own == OwnOf(call', bids, asks)
             ownAfter == OwnOf(call', bids', asks')
             fs == ret'.value.fills
         IN /\ \A k \in DOMAIN opp :
                   (\A i \in DOMAIN fs : KeyOf(T, fs[i]) # k)
                      => (k \in DOMAIN after /\ after[k] = opp[k])
            /\ DOMAIN after \subseteq DOMAIN opp
            /\ IF IsLimit(call')
               THEN /\ DOMAIN ownAfter = (DOMAIN own) \cup {OwnKey(call')}
                    /\ \A k \in (DOMAIN own) \ {OwnKey(call')} : ownAfter[k] = own[k]
               ELSE ownAfter = own
            /\ TotalSize(opp, DOMAIN opp) - TotalSize(after, DOMAIN after)
                  = ret'.value.total_fill_size]_vars

\* A market sell of 1 has filled the bid at price 2 in full: the bid at
\* price 1, which it did not reach, rests with its size, and nothing was
\* added.
C26_Witness ==
    /\ call.op = "place_market_sell"
    /\ call.size = 1
    /\ Len(Fills) = 1
    /\ Fills[1].price = 2
    /\ Fills[1].size = 1
    /\ asks = EmptyMap
    /\ Cardinality(DOMAIN bids) = 1
    /\ \A k \in DOMAIN bids : PriceOf("Bid", k) = 1 /\ bids[k].size = 2

\* C27: each side holds one entry per (price, creator, height): a limit
\* order whose key rests on its side already updates that entry; the side
\* has as many entries as before, and the one under the key has the size of
\* the unfilled remainder of the new order, whatever size rested before.
C27_OneEntryPerKey ==
    [][IsLimit(call') =>
         LET T == OwnType(call')
             own == OwnOf(call', bids, asks)
             ownAfter == OwnOf(call', bids', asks')
             k == OwnKey(call')
         IN /\ \A i, j \in DOMAIN ownAfter :
                   (/\ OrderAt(T, ownAfter, i).price = OrderAt(T, ownAfter, j).price
                    /\ OrderAt(T, ownAfter, i).creator = OrderAt(T, ownAfter, j).creator
                    /\ OrderAt(T, ownAfter, i).height = OrderAt(T, ownAfter, j).height)
                      => i = j
            /\ k \in DOMAIN own
                  => /\ DOMAIN ownAfter = DOMAIN own
                     /\ ownAfter[k].size + ret'.value.total_fill_size
                           = call'.size]_vars

\* A limit buy of 1 under the key of a resting bid of 2, with nothing to
\* fill: the one bid under the key has size 1, not 3.
C27_Witness ==
    /\ call.op = "place_limit_buy"
    /\ call.size = 1
    /\ replaced = Some(2)
    /\ ret.value.total_fill_size = 0
    /\ DOMAIN bids = {OwnKey(call)}
    /\ bids[OwnKey(call)].size = 1


(***************************************************************************)
(* Properties of the margin account.                                       *)
(***************************************************************************)
Collateral(a) == a.balance + a.order_margin + a.position_margin

\* The leverage of the account is between 1x and 100x and its position is
\* margined in full at that leverage.
Margined(a) ==
    /\ a.desired_leverage >= LEVERAGE_PRECISION
    /\ a.desired_leverage <= MAX_LEVERAGE
    /\ a.position_margin = divide_by_leverage(a, value(a))

\* C11: in every sequence of create_order / fill_order / adjust_leverage
\* calls on an account made by Account::new, a call that would debit more
\* than the balance (a realized loss included) returns an error; the
\* balance never underflows.  Stated for calls on an account whose position
\* is margined in full at a leverage in range, so that an earlier failed call
\* or an out-of-range leverage plays no part.
C11_BalanceNeverUnderflows ==
    [][(Margined(acct) /\ aret'.neg) => aret'.status = "Err"]_vars


\* The profit (positive) or loss (negative) a fill realizes on account a:
\* the closed amount r at the entry price e against the fill price p,
\* floor(r*S/e) - floor(r*S/p) for a long and the opposite for a short.
RealizedPnl(a, maker_side, maker_order, is_own_order) ==
    LET side == FillSide(maker_side, is_own_order)
        r == IF a.size = 0 \/ side = a.side THEN 0
             ELSE IF maker_order.size > a.size THEN a.size
             ELSE maker_order.size
        atEntry == IF r = 0 THEN 0
                   ELSE (r * SATOSHIS_PER_BITCOIN) \div a.entry_price
        atFill == IF r = 0 THEN 0
                  ELSE (r * SATOSHIS_PER_BITCOIN) \div maker_order.price
    IN IF a.side = "Long" THEN atEntry - atFill ELSE atFill - atEntry

\* The PnL the call c realizes on account a: none unless it is a fill.
CallPnl(a, c) ==
    IF c.op = "fill_order"
    THEN RealizedPnl(a, c.side, c.order, c.is_own_order)
    ELSE 0

\* C12: every successful create_order, fill_order and adjust_leverage call
\* changes balance + order_margin + position_margin by exactly the PnL the
\* call realizes, which is zero for create_order and adjust_leverage.
C12_CollateralConserved ==
    [][(aret'.status = "Ok" /\ ~aret'.neg /\ calls' # calls)
          => Collateral(acct') = Collateral(acct) + CallPnl(acct, acall')]_vars


\* C13: when create_order returns an error because the balance cannot cover
\* the additional order margin, every field of the account equals its value
\* before the call.
C13_CreateOrderErrorAtomic ==
    [][(acall'.op = "create_order" /\ aret'.status = "Err" /\ calls' # calls)
          => acct' = acct]_vars

\* C14: when fill_order or adjust_leverage returns an error, every field of
\* the account equals its value before the call.
C14_FillAdjustErrorAtomic ==
    [][(acall'.op \in {"fill_order", "adjust_leverage"} /\ aret'.status = "Err"
          /\ calls' # calls)
          => acct' = acct]_vars


LeverageInRange(l) == l >= LEVERAGE_PRECISION /\ l <= MAX_LEVERAGE

\* C15: adjust_leverage(l) with l below LEVERAGE_PRECISION or above
\* MAX_LEVERAGE returns an error and leaves the account unchanged, so that
\* desired_leverage lies between the two in every reachable account.
C15_LeverageBounds ==
    [][/\ (acall'.op = "adjust_leverage" /\ ~LeverageInRange(acall'.leverage)
             /\ calls' # calls)
          => (aret'.status = "Err" /\ acct' = acct)
       /\ LeverageInRange(acct'.desired_leverage)]_vars


\* A fill has just been applied with success.
Filled(c, r) == c.op = "fill_order" /\ r.status = "Ok"

\* The side the fill of call c adds to.
CallSide(c) == FillSide(c.side, c.is_own_order)

\* The truncated size-weighted average of entry price e of size q and price
\* p of size s.
WeightedAverage(e, q, p, s) ==
    LET ratio == (PRICE_PRECISION * s) \div (s + q)
    IN (ratio * p + (PRICE_PRECISION - ratio) * e) \div PRICE_PRECISION

\* C17: a successful fill_order that adds size s at price p to a position of
\* size q > 0 on the same side, for the maker and for the taker alike, sets
\* entry_price to the truncated size-weighted average.
C17_WeightedEntryPrice ==
    [][(Filled(acall', aret') /\ calls' # calls /\ acct.size > 0
          /\ Margined(acct) /\ CallSide(acall') = acct.side)
          => acct'.entry_price =
                 WeightedAverage(acct.entry_price, acct.size,
                                 acall'.order.price, acall'.order.size)]_vars

\* C18: a successful fill_order that reduces the position without changing
\* its side leaves entry_price unchanged; one on the opposite side whose size
\* exceeds the position flips side, leaves the excess as size and sets
\* entry_price to the fill price.
C18_ReduceAndFlip ==
    [][(Filled(acall', aret') /\ calls' # calls /\ acct.size > 0
          /\ CallSide(acall') # acct.side)
          => IF acall'.order.size <= acct.size
             THEN /\ acct'.entry_price = acct.entry_price
                  /\ acct'.side = acct.side
                  /\ acct'.size = acct.size - acall'.order.size
             ELSE /\ acct'.side = CallSide(acall')
                  /\ acct'.size = acall'.order.size - acct.size
                  /\ acct'.entry_price = acall'.order.price]_vars

\* A fill of 2 has flipped a position of 1: 1 is left on the side of the fill
\* at the price of the fill.
C18_Witness ==
    /\ Filled(acall, aret)
    /\ acall.order.size = 2
    /\ acall.order.price = 1
    /\ acct.size = 1
    /\ acct.side = CallSide(acall)
    /\ acct.entry_price = 1
    /\ acct.position_margin > 0


\* The amount of a position of size q the fill has closed, seen from the
\* account before (a) and after (b) the fill.
Closed(a, b) ==
    IF b.side # a.side THEN a.size
    ELSE IF b.size > a.size THEN 0
    ELSE a.size - b.size

\* The PnL of closing r of a position of side d and entry price e at price p.
Pnl(d, r, e, p) ==
    LET atEntry == IF r = 0 THEN 0 ELSE (r * SATOSHIS_PER_BITCOIN) \div e
        atFill == IF r = 0 THEN 0 ELSE (r * SATOSHIS_PER_BITCOIN) \div p
    IN IF d = "Long" THEN atEntry - atFill ELSE atFill - atEntry

\* The balance of account a after the margin updates of the fill of call c,
\* before its settlement.
BalanceBeforeSettlement(a, c) ==
    fill_margins(a, c.side, c.order, c.is_own_order).a.balance

\* C19: a fill at price p on a position of side d, size q and entry price e
\* closes r = q if the position flips, q less the new size if it shrinks and
\* 0 if it grows, and changes the balance (as a u64) by
\* floor(r*S/e) - floor(r*S/p) for a long and floor(r*S/p) - floor(r*S/e)
\* for a short: a gain for a long when p > e and for a short when p < e,
\* and nothing when r = 0.
C19_RealizedPnl ==
    [][(Filled(acall', aret') /\ calls' # calls)
          => LET r == Closed(acct, acct')
                 p == acall'.order.price
                 pnl == Pnl(acct.side, r, acct.entry_price, p)
             IN /\ acct'.balance = Wrap(BalanceBeforeSettlement(acct, acall') + pnl)
                /\ (r > 0 /\ acct.side = "Long" /\ p > acct.entry_price) => pnl >= 0
                /\ (r > 0 /\ acct.side = "Long" /\ p < acct.entry_price) => pnl <= 0
                /\ (r > 0 /\ acct.side = "Short" /\ p < acct.entry_price) => pnl >= 0
                /\ (r > 0 /\ acct.side = "Short" /\ p > acct.entry_price) => pnl <= 0]_vars

\* A long of 1 entered at price 1 has been closed at price 2 by an account
\* that started with HighBalance: the profit is 10/1 - 10/2.
C19_Witness ==
    /\ Filled(acall, aret)
    /\ CallSide(acall) = "Short"
    /\ acall.order = Order(2, 0, 0, 1)
    /\ acct.side = "Long"
    /\ acct.entry_price = 1
    /\ acct.size = 0
    /\ acct.order_margin = 0
    /\ acct.balance = HighBalance + (SATOSHIS_PER_BITCOIN - SATOSHIS_PER_BITCOIN \div 2)


\* C20: divide_by_leverage(n) is floor(n * LEVERAGE_PRECISION /
\* desired_leverage) for every n and every leverage from 1x to 100x.
C20_DivideByLeverage ==
    division.status # "None"
        => /\ division.status = "Ok"
           /\ division.out = (division.n * LEVERAGE_PRECISION) \div acct.desired_leverage


\* C16: place_order_tx is all-or-nothing: whenever it returns an error, the
\* order book and every account of the account store are as they were
\* before the call.  Stated for market orders, which leave no order resting
\* (the errors are those of the checks before matching and of the loop over
\* the fills), handled after a transaction that succeeded.
C16_PlaceOrderAtomic ==
    [][(txret' = "Err" /\ calls' # calls /\ txret = "Ok"
          /\ call'.op \in {"place_market_buy", "place_market_sell"})
          => (bids' = bids /\ asks' = asks /\ accounts' = accounts)]_vars


\* C21: place_order_tx returns an error, with no change to the book or to
\* any account, for a limit order whose price is 0 and for any order (limit
\* or market) whose size is 0.  Stated for the transactions that reach the
\* order book, whose call the book records.
C21_InvalidOrderRejected ==
    [][(calls' # calls /\ call' # call /\ call'.op \in Placements
          /\ (\/ call'.size = 0
              \/ (call'.op \in {"place_limit_buy", "place_limit_sell"}
                     /\ call'.price = 0)))
          => (txret' = "Err" /\ bids' = bids /\ asks' = asks
                 /\ accounts' = accounts)]_vars


\* floor(n * LEVERAGE_PRECISION / desired_leverage): notional n at the
\* leverage of account a.
AtLeverage(a, n) == (n * LEVERAGE_PRECISION) \div a.desired_leverage

\* The notional of the position of account a.
Notional(a) ==
    IF a.size = 0 THEN 0 ELSE (a.size * SATOSHIS_PER_BITCOIN) \div a.entry_price

\* max(x - y, 0)
Minus(x, y) == IF x > y THEN x - y ELSE 0

\* The order margin account a calls for: the reserved notional of both sides
\* at its leverage, the side that would reduce the position less the
\* position margin.
OrderMarginRequired(a) ==
    IF a.side = "Long"
    THEN AtLeverage(a, a.max_bid_margin)
            + Minus(AtLeverage(a, a.max_ask_margin), a.position_margin)
    ELSE Minus(AtLeverage(a, a.max_bid_margin), a.position_margin)
            + AtLeverage(a, a.max_ask_margin)

\* C22: after a successful adjust_leverage(l), desired_leverage = l,
\* position_margin and order_margin equal the requirements recomputed at
\* leverage l, and what the two rebalancers free is credited to the balance:
\* balance + order_margin + position_margin is as before, and raising the
\* leverage never lowers the balance.
C22_AdjustLeverage ==
    [][(acall'.op = "adjust_leverage" /\ aret'.status = "Ok" /\ calls' # calls)
          => /\ acct'.desired_leverage = acall'.leverage
             /\ acct'.position_margin = AtLeverage(acct', Notional(acct'))
             /\ acct'.order_margin = OrderMarginRequired(acct')
             /\ Collateral(acct') = Collateral(acct)
             /\ acall'.leverage >= acct.desired_leverage
                   => acct'.balance >= acct.balance]_vars

\* The position of account a as a signed integer, and the signed size of the
\* fill of call c.
Signed(a) == IF a.side = "Long" THEN a.size ELSE 0 - a.size

SignedFill(c) == IF CallSide(c) = "Long" THEN c.order.size ELSE 0 - c.order.size

\* C28: a successful fill_order of size s whose effective side is d (the
\* maker's side for the account's own order, the opposite side otherwise)
\* changes the signed position by +s when d is Long and by -s when d is
\* Short; a flat account adopts side d, and a fill that brings the position
\* to exactly zero leaves side unchanged.
C28_SignedPosition ==
    [][(Filled(acall', aret') /\ calls' # calls)
          => /\ Signed(acct') = Signed(acct) + SignedFill(acall')
             /\ acct.size = 0 => acct'.side = CallSide(acall')
             /\ (acct.size > 0 /\ acct'.size = 0) => acct'.side = acct.side]_vars

\* A long fill of 1 has closed a short position of 1: the account is flat
\* and still Short.
C28_Witness ==
    /\ Filled(acall, aret)
    /\ CallSide(acall) = "Long"
    /\ acall.order.size = 1
    /\ acct.size = 0
    /\ acct.side = "Short"
    /\ acct.position_margin = 0

\* floor(o.size * SATOSHIS_PER_BITCOIN / o.price)
Cost(o) == (o.size * SATOSHIS_PER_BITCOIN) \div o.price

\* C29: on an account with no open position, a successful create_order(side,
\* o) raises max_bid_margin (Long) or max_ask_margin (Short) by exactly
\* floor(o.size * SATOSHIS_PER_BITCOIN / o.price) and leaves the other
\* unchanged; afterwards order_margin is divide_by_leverage(max_bid_margin) +
\* divide_by_leverage(max_ask_margin), the balance has dropped by exactly
\* the increase of order_margin, and the position fields are untouched.
C29_CreateOrderFlat ==
    [][(acall'.op = "create_order" /\ aret'.status = "Ok" /\ calls' # calls
          /\ acct.size = 0)
          => /\ acct'.max_bid_margin = acct.max_bid_margin
                    + (IF acall'.side = "Long" THEN Cost(acall'.order) ELSE 0)
             /\ acct'.max_ask_margin = acct.max_ask_margin
                    + (IF acall'.side = "Short" THEN Cost(acall'.order) ELSE 0)
             /\ acct'.order_margin = AtLeverage(acct', acct'.max_bid_margin)
                                        + AtLeverage(acct', acct'.max_ask_margin)
             /\ acct.balance - acct'.balance = acct'.order_margin - acct.order_margin
             /\ acct'.size = acct.size
             /\ acct'.side = acct.side
             /\ acct'.entry_price = acct.entry_price
             /\ acct'.position_margin = acct.position_margin]_vars

\* What the order-margin rebalance of create_order(side, order) on account a
\* unlocks.
Unlocked(a, side, order) == update_order_margin(reserve(a, side, cost(order))).out

\* C30: in every account state reachable through create_order, fill_order
\* and adjust_leverage, the order-margin rebalance run by create_order
\* unlocks zero funds: the assertion "Funds should not be unlocked when
\* creating an order" never fails, and order_margin never decreases across a
\* create_order call.  Stated for orders of positive size, created after a
\* call that succeeded.
C30_CreateOrderNeverUnlocks ==
    [][(acall'.op = "create_order" /\ calls' # calls /\ acall'.order.size > 0
          /\ aret.status = "Ok")
          => /\ Unlocked(acct, acall'.side, acall'.order) = 0
             /\ aret'.status # "Panic"
             /\ acct'.order_margin >= acct.order_margin]_vars

\* Every order the account registered has been filled whole.
AllConsumed ==
    /\ registered # << >>
    /\ \A i \in 1..Len(registered) : registered[i].size = 0

\* C31: once own-order fills have consumed every order the account
\* registered with create_order, in one fill or in several that sum to the
\* order's size, max_bid_margin, max_ask_margin and order_margin are all
\* zero, and on the way no call panics on an underflow and neither counter
\* wraps below zero.
C31_ReservedNotionalReleased ==
    /\ aret.status # "Panic"
    /\ acct.max_bid_margin <= MaxFunds
    /\ acct.max_ask_margin <= MaxFunds
    /\ (AllConsumed /\ aret.status = "Ok") =>
          /\ acct.max_bid_margin = 0
          /\ acct.max_ask_margin = 0
          /\ acct.order_margin = 0


\* C32: after every successful fill_order and every successful
\* adjust_leverage, position_margin is the notional of the position, 0 when
\* size is 0 and floor(size * SATOSHIS_PER_BITCOIN / entry_price) otherwise,
\* at the account's leverage; a flat account holds no position margin.
C32_PositionMarginDerived ==
    [][(acall'.op \in {"fill_order", "adjust_leverage"} /\ aret'.status = "Ok"
          /\ calls' # calls)
          => /\ acct'.position_margin = AtLeverage(acct', Notional(acct'))
             /\ acct'.size = 0 => acct'.position_margin = 0]_vars

\* adjust_leverage(2x) has succeeded on a position of 2 entered at price 1:
\* the position margin is half the notional of 20.
C32_Witness ==
    /\ acall.op = "adjust_leverage"
    /\ aret.status = "Ok"
    /\ acct.desired_leverage = 2 * LEVERAGE_PRECISION
    /\ acct.size = 2
    /\ acct.entry_price = 1
    /\ acct.position_margin = SATOSHIS_PER_BITCOIN

(***************************************************************************)
(* Properties of the transaction handlers over runs of transactions.       *)
(***************************************************************************)

\* C33: every transaction a handler accepts, place_order_tx or
\* update_leverage_tx, leaves the stored nonce of one account, its
\* creator's, exactly one higher, so that the same transaction is rejected
\* the next time for its nonce.
C33_NonceRaised ==
    [][(calls' # calls /\ txret' = "Ok")
          => \E creator \in DOMAIN accounts :
                accounts'[creator].nonce = accounts[creator].nonce + 1]_vars

RECURSIVE SumSigned(_, _)

\* The sum of the signed positions of the accounts at the addresses.
SumSigned(store, addresses) ==
    IF addresses = {} THEN 0
    ELSE LET address == CHOOSE x \in addresses : TRUE
         IN Signed(store[address]) + SumSigned(store, addresses \ {address})

OpenInterest == SumSigned(accounts, DOMAIN accounts)

\* C34: starting from flat accounts, after any sequence of accepted
\* place_order_tx transactions the signed positions of all accounts, +size
\* when Long and -size when Short, sum to zero.
C34_OpenInterestNetsToZero == txret = "Ok" => OpenInterest = 0

(***************************************************************************)
(* Properties of the resting orders of the book.                           *)
(***************************************************************************)

\* Every entry of the map holds a positive size.
AllPositive(map) == \A k \in DOMAIN map : map[k].size > 0

\* C35: no resting order has size zero: on a book whose entries all have a
\* positive size, a placement of positive requested size or a cancellation
\* leaves every entry of bids and asks with a positive size (a limit order
\* filled whole on arrival leaves no entry under its key), and returns no
\* fill of size 0.
C35_NoZeroSizeOrder ==
    [][(/\ AllPositive(bids)
        /\ AllPositive(asks)
        /\ \/ call'.op = "cancel_order"
           \/ call'.op \in Placements /\ call'.size > 0)
          => /\ AllPositive(bids')
             /\ AllPositive(asks')
             /\ \A i \in DOMAIN ret'.value.fills : ret'.value.fills[i].size > 0
             /\ (IsLimit(call') /\ ret'.value.total_fill_size = call'.size)
                   => OwnKey(call') \notin DOMAIN OwnOf(call', bids', asks')]_vars

\* C36: the book is never crossed between different creators: there is no
\* resting bid of positive size of one creator and resting ask of positive
\* size of another creator with the bid's price at or above the ask's.
C36_NeverCrossed ==
    \A b \in DOMAIN bids, a \in DOMAIN asks :
        (/\ bids[b].size > 0
         /\ asks[a].size > 0
         /\ b.creator # a.creator)
           => PriceOf("Bid", b) < PriceOf("Ask", a)

\* A limit buy at price 1 has been filled in part and rests with what is
\* left, below an ask of another creator at price 2.
C36_Witness ==
    /\ call.op = "place_limit_buy"
    /\ ret.value.total_fill_size > 0
    /\ \E b \in DOMAIN bids, a \in DOMAIN asks :
          /\ bids[b].size > 0
          /\ asks[a].size > 0
          /\ b.creator # a.creator
          /\ PriceOf("Bid", b) = 1
          /\ PriceOf("Ask", a) = 2

(***************************************************************************)
(* Properties of the margins over runs of calls.                           *)
(***************************************************************************)

\* C37: after every successful create_order, fill_order (as maker or as
\* taker) and adjust_leverage that follows a successful call, order_margin
\* is the derived requirement: the reserved notional of both sides at the
\* account's leverage, the side opposite to the open position first reduced
\* by the position margin (saturating at 0).
C37_OrderMarginDerived ==
    [][(/\ acall'.op \in {"create_order", "fill_order", "adjust_leverage"}
        /\ aret'.status = "Ok"
        /\ aret.status = "Ok"
        /\ calls' # calls)
          => acct'.order_margin = OrderMarginRequired(acct')]_vars

(***************************************************************************)
(* Properties of place_order_tx over runs of accepted transactions.        *)
(***************************************************************************)

\* The side of the transaction behind a call of the book.
TxSide(c) == IF c.side = "Buy" THEN "Long" ELSE "Short"

RECURSIVE MakerFilled(_, _, _, _)

\* The account of a maker after the handler's fill_order for each of the
\* fills of its orders, in order.
MakerFilled(account, fills, side, maker) ==
    IF fills = << >> THEN account
    ELSE MakerFilled(IF Head(fills).creator = maker
                     THEN fill_order(account, side, Head(fills), TRUE).a
                     ELSE account,
                     Tail(fills), side, maker)

\* C38: no update is lost on the taker's account: no fill of a transaction's
\* placement has the transaction's creator as its creator, so that when the
\* transaction is accepted the store holds, for every maker, the account the
\* fill loop wrote for it, and for the creator the taker's account with its
\* nonce raised by one.
C38_NoLostUpdate ==
    [][calls' # calls =>
         /\ \A i \in DOMAIN ret'.value.fills :
                ret'.value.fills[i].creator # call'.creator
         /\ txret' = "Ok" =>
               /\ accounts'[call'.creator].nonce = accounts[call'.creator].nonce + 1
               /\ \A i \in DOMAIN ret'.value.fills :
                     LET maker == ret'.value.fills[i].creator
                     IN accounts'[maker] =
                           MakerFilled(accounts[maker], ret'.value.fills,
                                       TxSide(call'), maker)]_vars

\* An accepted transaction has filled an order of a maker: the maker holds a
\* position and the taker's nonce has been raised.
C38_Witness ==
    /\ txret = "Ok"
    /\ call.op \in Placements
    /\ ret.value.total_fill_size > 0
    /\ accounts[Fills[1].creator].size > 0
    /\ accounts[call.creator].size > 0
    /\ accounts[call.creator].nonce > 0

\* C39: no division by zero is reachable through accepted place_order_tx
\* transactions with limit prices >= 1 and positive sizes: no handler
\* panics in a release build, where a division by zero is all that panics
\* (the position-increasing branch of update_entry_price divides by
\* order.size + self.size, value, Order::cost and add_pnl by a price), and
\* every stored account with size > 0 has entry_price > 0.
C39_NoDivisionByZero ==
    /\ build = "release" => txret # "Panic"
    /\ \A creator \in DOMAIN accounts :
          accounts[creator].size > 0 => accounts[creator].entry_price > 0

(***************************************************************************)
(* Properties of the arithmetic of divide_by_leverage.                     *)
(***************************************************************************)

\* The total Bitcoin supply, 21 million bitcoin, in satoshis.
TotalSupply == 21 * 1000000 * SATOSHIS_PER_BITCOIN

\* C40: for every notional n up to the total Bitcoin supply and every
\* leverage from 1x to 100x, the product n * PRICE_PRECISION *
\* LEVERAGE_PRECISION in divide_by_leverage fits the word, so that the call
\* does not panic and returns floor(n * LEVERAGE_PRECISION /
\* desired_leverage), not a wrapped value.
C40_NoOverflowUpToSupply ==
    (division.status # "None" /\ division.n <= TotalSupply
        /\ LeverageInRange(acct.desired_leverage))
        => /\ ~divide_by_leverage_overflows(division.n)
           /\ division.status # "Panic"
           /\ division.out = (division.n * LEVERAGE_PRECISION) \div acct.desired_leverage

====
